---- MODULE Spec2Model ----
(***************************************************************************)
(* SmartHealthQuote backend: the vector index (services/rag.py), the       *)
(* lazily loaded process-wide index slot (routes/utils.py), the            *)
(* POST /api/quote handler (routes/quote.py) with its two remote           *)
(* providers (services/embedding.py, services/llm.py), the request schema  *)
(* (models/schemas.py) and the cost matrix (services/costing.py).          *)
(*                                                                         *)
(* Python's None is None below where an object is expected; an optional    *)
(* number or string is a tuple, <<>> when it is None and <<v>> when it is  *)
(* v.  A vector is a tuple of integers; with the vectors used here every   *)
(* inner product is an integer, and a vector is L2-normalized exactly when *)
(* its squared norm is 1.                                                  *)
(***************************************************************************)
EXTENDS Integers, Sequences, FiniteSets, TLC

VARIABLES
    rag,      \* one RagIndex instance: index, metadata, dimension (rag.py 8-11)
    last,     \* outcome of the last RagIndex method call on rag
    env,      \* the process's surroundings: whether faiss can be imported, and
              \* the two artifacts under INDEX_DIR (faiss.index, meta.json)
    RAG,      \* the module global _RAG of routes/utils.py; under SpecStore the
              \* instance load was last called on
    req,      \* the POST /api/quote invocation in progress
    cost,     \* the CostMatrixCalculator call in hand: its request and result
    enc,      \* the encoder call in hand: what was encoded and the text
    health,   \* the GET /rag/status invocation in hand
    th        \* the threads of the serving process: where each one is in
              \* get_rag, search or a calculator call, and what it holds

vars == <<rag, last, env, RAG, req, cost, enc, health, th>>

None == [none |-> TRUE]

\* How a call ended when it raised nothing.
NoError == "no error"

(***************************************************************************)
(* Bounds of the model.                                                    *)
(***************************************************************************)
MaxVecs  == 2   \* vectors an index holds at most
MaxMeta  == 2   \* metadata records an instance holds at most
MaxBatch == 2   \* rows (or records) passed to one add_documents call
MaxTopK  == 3   \* largest top_k passed to search

Min(a, b) == IF a < b THEN a ELSE b
Max(a, b) == IF a > b THEN a ELSE b

(***************************************************************************)
(* Vectors.  A 2-D numpy array is (d, rows): every row has d components.   *)
(***************************************************************************)
Dims == {1, 2}

Vecs(d) == IF d = 1 THEN {<<1>>}
                    ELSE {<<1, 0>>, <<0, 1>>, <<2, 0>>}

RECURSIVE DotFrom(_, _, _)
DotFrom(a, b, i) == IF i > Len(a) THEN 0 ELSE a[i] * b[i] + DotFrom(a, b, i + 1)

\* IndexFlatIP's similarity: the inner product of a stored row and the query.
Dot(a, b) == DotFrom(a, b, 1)

IsNormalized(v) == Dot(v, v) = 1

SeqsUpTo(S, n) == UNION {[1..m -> S] : m \in 0..n}

(***************************************************************************)
(* Metadata records are dictionaries: functions from some keys to values.  *)
(* ingest.py writes "text", "row_id" and one key per CSV column (the       *)
(* column name lower-cased), so any key can occur, "id" and "score"        *)
(* included; test_backend.py passes records with an "id" key.              *)
(***************************************************************************)
MetaRecords ==
    { [text |-> "a", premium_inr |-> 100],
      [premium_inr |-> 200],
      [text |-> "c", id |-> 7, score |-> 9] }

\* dict.get(key, default)
Get(m, key, default) == IF key \in DOMAIN m THEN m[key] ELSE default

(***************************************************************************)
(* RagIndex.  index is None or a flat inner-product index [d, xb]: its     *)
(* dimension and its rows in insertion order (row i has FAISS label i-1).  *)
(* index.sup is a history field, not program state: for every stored row,  *)
(* the metadata record passed at the same position of the same             *)
(* add_documents call as <<m>>, or <<>> when that call passed none there.  *)
(***************************************************************************)
DefaultDimension == 384

NewRagIndex ==
    [index |-> None, metadata |-> <<>>, dimension |-> DefaultDimension]

ntotal(index) == Len(index.xb)

SuppliedWith(rows, metas) ==
    [i \in 1..Len(rows) |-> IF i <= Len(metas) THEN <<metas[i]>> ELSE <<>>]

\* create_index: the dimension is read off the array, a fresh index is made
\* and the rows are added as they are.
create_index(r, d, rows) ==
    [r EXCEPT !.dimension = d, !.index = [d |-> d, xb |-> rows, sup |-> <<>>]]

\* faiss's index.add(x): asserts x.shape[1] = index.d, then appends the rows.
IndexAddOk(index, d) == d = index.d

\* add_documents(embeddings, metadata): what the call leaves and how it ends.
add_documents(r, d, rows, metas) ==
    IF r.index = None
    THEN [rag |-> [create_index(r, d, rows) EXCEPT
                      !.metadata = r.metadata \o metas,
                      !.index.sup = SuppliedWith(rows, metas)],
          raised |-> NoError]
    ELSE IF ~IndexAddOk(r.index, d)
    THEN [rag |-> r, raised |-> "AssertionError"]
    ELSE [rag |-> [r EXCEPT
                      !.index.xb = r.index.xb \o rows,
                      !.metadata = r.metadata \o metas,
                      !.index.sup = r.index.sup \o SuppliedWith(rows, metas)],
          raised |-> NoError]

(***************************************************************************)
(* faiss's index.search(q, k) for one query row: the labels of the         *)
(* min(k, ntotal) rows with the largest inner product, best first; the     *)
(* remaining k - ntotal slots hold label -1.  FAISS documents no order     *)
(* among rows of equal score, so every order of a tie is an outcome.       *)
(* Labels are positions 1..ntotal here; the code's id is the position - 1. *)
(***************************************************************************)
FaissLabels(index, q, k) ==
    LET n == ntotal(index)
        m == Min(k, n)
        s(i) == Dot(index.xb[i], q)
    IN { lab \in [1..m -> 1..n] :
           /\ \A i, j \in 1..m : i # j => lab[i] # lab[j]
           /\ \A i, j \in 1..m : i < j => s(lab[i]) >= s(lab[j])
           /\ \A p \in 1..n :
                 (\A i \in 1..m : lab[i] # p) =>
                     \A i \in 1..m : s(lab[i]) >= s(p) }

\* One result of search (rag.py 43-48): id, score and text, then every key
\* of the metadata record, which replaces a key already set.
ResultOf(r, q, pos) ==
    LET m == r.metadata[pos]
    IN m @@ [id    |-> pos - 1,
             score |-> Dot(r.index.xb[pos], q),
             text  |-> Get(m, "text", "")]

\* search(query_embedding, top_k): the set of ways the call can end.
search(r, q, k) ==
    IF r.index = None
    THEN {[raised |-> "ValueError", labels |-> <<>>, results |-> <<>>]}
    ELSE IF Len(q) # r.index.d
    THEN {[raised |-> "AssertionError", labels |-> <<>>, results |-> <<>>]}
    ELSE { IF \E i \in DOMAIN lab : lab[i] > Len(r.metadata)
           THEN [raised |-> "IndexError", labels |-> lab, results |-> <<>>]
           ELSE [raised |-> NoError, labels |-> lab,
                 results |-> [i \in DOMAIN lab |-> ResultOf(r, q, lab[i])]]
         : lab \in FaissLabels(r.index, q, k) }

\* get_stats
get_stats(r) ==
    IF r.index = None
    THEN [status |-> "not_loaded"]
    ELSE [status |-> "loaded", total_vectors |-> ntotal(r.index),
          dimension |-> r.index.d, metadata_count |-> Len(r.metadata)]

(***************************************************************************)
(* The artifacts.  env.index is what faiss.index holds (None: no file),    *)
(* env.meta what meta.json holds: kind "absent" (no file), "garbage" (a    *)
(* file that is not JSON) or "json" with the document in records.          *)
(***************************************************************************)
\* A JSON document: an object is its members <<key, value>> in the order they
\* are written, a list is the sequence of its elements.  A dictionary keeps
\* its keys in one order here.
JsonKeys == <<"text", "premium_inr", "id", "score">>

MetaFile(kind, records) == [kind |-> kind, records |-> records]

\* json.dump(self.metadata, f): every record is written as a JSON object.
json_dump(metadata) ==
    [i \in DOMAIN metadata |->
        LET keys == SelectSeq(JsonKeys, LAMBDA key : key \in DOMAIN metadata[i])
        IN [n \in DOMAIN keys |-> <<keys[n], metadata[i][keys[n]]>>]]

\* json.load(f): every object becomes a dictionary; of two members with the
\* same key the later one stays.
json_load(document) ==
    [i \in DOMAIN document |->
        LET object == document[i]
            at(key) == CHOOSE n \in DOMAIN object :
                          /\ object[n][1] = key
                          /\ \A later \in DOMAIN object :
                                object[later][1] = key => later <= n
        IN [key \in {object[n][1] : n \in DOMAIN object} |-> object[at(key)][2]]]

\* save(index_path, meta_path): what the call leaves in the two files and
\* how it ends.
save(r, e) ==
    IF r.index = None
    THEN [env |-> e, raised |-> "ValueError"]
    ELSE [env |-> [e EXCEPT !.index = r.index,
                            !.meta = MetaFile("json", json_dump(r.metadata))],
          raised |-> NoError]

\* load taking a missing metadata file for an empty list.
load_missing_meta_as_empty(r, e) ==
    IF e.index = None
    THEN [rag |-> r, raised |-> "FileNotFoundError"]
    ELSE IF e.meta.kind = "absent"
    THEN [rag |-> [r EXCEPT !.index = e.index, !.metadata = <<>>],
          raised |-> NoError]
    ELSE IF e.meta.kind = "garbage"
    THEN [rag |-> [r EXCEPT !.index = e.index], raised |-> "JSONDecodeError"]
    ELSE [rag |-> [r EXCEPT !.index = e.index,
                            !.metadata = json_load(e.meta.records)],
          raised |-> NoError]

\* load with the metadata left as it was.
load_index_only(r, e) ==
    IF e.index = None \/ e.meta.kind = "absent"
    THEN [rag |-> r, raised |-> "FileNotFoundError"]
    ELSE [rag |-> [r EXCEPT !.index = e.index], raised |-> NoError]

\* load(index_path, meta_path): what the call leaves and how it ends.  The
\* index is replaced before the metadata file is opened and parsed.
load(r, e) ==
    IF e.index = None
    THEN [rag |-> r, raised |-> "FileNotFoundError"]
    ELSE IF e.meta.kind = "absent"
    THEN [rag |-> r, raised |-> "FileNotFoundError"]
    ELSE IF e.meta.kind = "garbage"
    THEN [rag |-> [r EXCEPT !.index = e.index], raised |-> "JSONDecodeError"]
    ELSE [rag |-> [r EXCEPT !.index = e.index,
                            !.metadata = json_load(e.meta.records)],
          raised |-> NoError]

(***************************************************************************)
(* Calls on one RagIndex instance, in any order and with any arguments.    *)
(* last holds what the call in hand was given and how it ended, until the  *)
(* caller is done with it (Return).                                        *)
(***************************************************************************)
NoCall ==
    [op |-> "none", d |-> 0, rows |-> <<>>, metas |-> <<>>, q |-> <<>>, k |-> 0,
     raised |-> NoError, labels |-> <<>>, results |-> <<>>, before |-> NewRagIndex]

Queries == UNION {Vecs(d) : d \in Dims}

AddDocuments ==
    \E d \in Dims :
      \E rows \in SeqsUpTo(Vecs(d), MaxBatch), metas \in SeqsUpTo(MetaRecords, MaxBatch) :
        LET out == add_documents(rag, d, rows, metas)
        IN /\ last = NoCall
           /\ Len(rag.metadata) + Len(metas) <= MaxMeta
           /\ (IF rag.index = None THEN 0 ELSE ntotal(rag.index)) + Len(rows) <= MaxVecs
           /\ rag' = out.rag
           /\ last' = [NoCall EXCEPT !.op = "add_documents", !.d = d, !.rows = rows,
                                     !.metas = metas, !.raised = out.raised,
                                     !.before = rag]
           /\ UNCHANGED <<enc, health, th, cost, env, RAG, req>>

Search ==
    \E q \in Queries, k \in 1..MaxTopK :
      \E out \in search(rag, q, k) :
        /\ last = NoCall
        /\ last' = [NoCall EXCEPT !.op = "search", !.q = q, !.k = k,
                                  !.raised = out.raised, !.labels = out.labels,
                                  !.results = out.results, !.before = rag]
        /\ UNCHANGED <<enc, health, th, cost, rag, env, RAG, req>>

\* A new instance: RagIndex()
NewInstance ==
    /\ last = NoCall
    /\ rag # NewRagIndex
    /\ rag' = NewRagIndex
    /\ UNCHANGED <<enc, health, th, cost, last, env, RAG, req>>

\* The caller is done with the outcome of the call.
Return ==
    /\ last # NoCall
    /\ last' = NoCall
    /\ UNCHANGED <<enc, health, th, cost, rag, env, RAG, req>>

NoArtifacts == [faiss |-> TRUE, index |-> None, meta |-> MetaFile("absent", <<>>)]

IdleRequest == [pc |-> "idle"]

NoCost == [op |-> "none"]

NoText == [op |-> "none"]

NoHealth == [pc |-> "idle"]

NoThreads == <<>>

InitIndex ==
    /\ rag = NewRagIndex
    /\ last = NoCall
    /\ env = NoArtifacts
    /\ RAG = None
    /\ req = IdleRequest
    /\ cost = NoCost
    /\ enc = NoText
    /\ health = NoHealth
    /\ th = NoThreads

NextIndex == AddDocuments \/ Search \/ NewInstance \/ Return

SpecIndex == InitIndex /\ [][NextIndex]_vars

(***************************************************************************)
(* Building and restoring.  As in ingest.py (lines 106-117) a new instance  *)
(* is filled by one add_documents call while nothing has been written yet  *)
(* and is then saved; load is called on a new RagIndex(), and RAG holds     *)
(* that instance as the call left it.                                      *)
(***************************************************************************)
Build ==
    /\ env = NoArtifacts
    /\ rag = NewRagIndex
    /\ AddDocuments

Save ==
    LET out == save(rag, env)
    IN /\ last = NoCall
       /\ env' = out.env
       /\ last' = [NoCall EXCEPT !.op = "save", !.raised = out.raised, !.before = rag]
       /\ UNCHANGED <<enc, health, th, cost, rag, RAG, req>>

Load ==
    LET out == load(NewRagIndex, env)
    IN /\ last = NoCall
       /\ RAG' = out.rag
       /\ last' = [NoCall EXCEPT !.op = "load", !.raised = out.raised]
       /\ UNCHANGED <<enc, health, th, cost, rag, env, req>>

\* meta.json is left with text that is not JSON (a write that was cut short,
\* an edit by hand); faiss.index stays as it was written.
Damage ==
    /\ last = NoCall
    /\ env.index # None
    /\ env.meta.kind = "json"
    /\ env' = [env EXCEPT !.meta = MetaFile("garbage", <<>>)]
    /\ UNCHANGED <<enc, health, th, cost, rag, last, RAG, req>>

NextStore == Build \/ Save \/ Load \/ Damage \/ Return

SpecStore == InitIndex /\ [][NextStore]_vars

(***************************************************************************)
(* The request schema (models/schemas.py).  A profile carries age,         *)
(* sum_insured and premium_payment_mode, each optional; the profiles of    *)
(* the handler add policy_term_years, those of the calculator add          *)
(* number_of_insured_members, bmi, exercise_frequency and                  *)
(* policy_term_years.  A field a profile does not carry is absent (None).  *)
(***************************************************************************)
Profile(age, sum_insured, mode) ==
    [age |-> age, sum_insured |-> sum_insured, premium_payment_mode |-> mode]

\* check_age with the lower bound forgotten.
check_age_upper_only(v) == ~(v # <<>> /\ v[1] > 120)

\* QuoteRequest.check_age: TRUE when the validator accepts the value.
check_age(v) == ~(v # <<>> /\ (v[1] < 0 \/ v[1] > 120))

\* QuoteRequest.model_validate: the fields are typed here, so the field
\* validator decides.
model_validate(p) == check_age(p.age)

(***************************************************************************)
(* The cost matrix (services/costing.py).  Multipliers are integers:       *)
(* hundredths for the age bands, thousandths for the payment modes, so     *)
(* that every product below is exact.                                      *)
(***************************************************************************)
MinimumPremium == 3000
DefaultBase    == 15000
DefaultAge     == 35

BASE_BY_SUM_INSURED ==
    << <<300000, 7000>>, <<500000, 9000>>, <<700000, 12000>>, <<1000000, 15000>>,
       <<1500000, 19000>>, <<2000000, 23000>>, <<3000000, 30000>>, <<5000000, 42000>> >>

\* AGE_BANDS with the youngest band at 0.40 instead of 0.90.
AGE_BANDS_deep_discount ==
    << <<25, 40>>, <<35, 100>>, <<45, 120>>, <<55, 145>>, <<65, 180>>, <<200, 220>> >>

\* factors in hundredths
AGE_BANDS ==
    << <<25, 90>>, <<35, 100>>, <<45, 120>>, <<55, 145>>, <<65, 180>>, <<200, 220>> >>

\* thresholds in tenths of a BMI point, factors in hundredths
BMI_BANDS ==
    << <<185, 95>>, <<249, 100>>, <<299, 115>>, <<349, 130>>, <<1000, 150>> >>

\* LIFESTYLE_FACTORS["exercise"].get(frequency, 1.0), in hundredths
EXERCISE_FACTOR(frequency) ==
    CASE frequency = "Sedentary"      -> 110
      [] frequency = "1-2 times/week" -> 105
      [] frequency = "3-4 times/week" -> 100
      [] frequency = "Daily"          -> 97
      [] OTHER                        -> 100

\* TERM_FACTOR.get(term, 1.0), in hundredths
TERM_FACTOR(term) ==
    CASE term = 1 -> 100
      [] term = 2 -> 99
      [] term = 3 -> 98
      [] OTHER    -> 100

\* PAYMENT_MODE_FACTOR.get(pay, 1.0), in thousandths
PAYMENT_MODE_FACTOR(pay) ==
    CASE pay = "Monthly"     -> 1000
      [] pay = "Quarterly"   -> 990
      [] pay = "Half-Yearly" -> 985
      [] pay = "Yearly"      -> 980
      [] OTHER               -> 1000

\* The first band whose threshold is >= value; the last band past them all.
RECURSIVE BandFrom(_, _, _)
BandFrom(value, bands, i) ==
    IF i > Len(bands) THEN bands[Len(bands)][2]
    ELSE IF value <= bands[i][1] THEN bands[i][2]
    ELSE BandFrom(value, bands, i + 1)

_band(value, bands) == BandFrom(value, bands, 1)

\* _pick_base: a falsy sum insured (None or 0) takes the default.  Sums above
\* the last threshold are extrapolated by a 0.3 power in the code; the
\* profiles of this model stay within the table.
_pick_base(sum_insured) ==
    IF sum_insured = <<>> \/ sum_insured = <<0>>
    THEN DefaultBase
    ELSE _band(sum_insured[1], BASE_BY_SUM_INSURED)

\* Python's round(n / d) for integers n >= 0, d > 0: to nearest, ties to even.
RoundHalfEven(n, d) ==
    LET q == n \div d
        r == n % d
    IN IF 2 * r < d THEN q
       ELSE IF 2 * r > d THEN q + 1
       ELSE IF q % 2 = 0 THEN q ELSE q + 1

\* A field of the request that was not given is None.
Field(p, name) == IF name \in DOMAIN p THEN p[name] ELSE <<>>

\* MEMBERS_FACTOR_STEP, in hundredths
MEMBERS_FACTOR_STEP == 8

\* The surcharge compounded per member: 1.08 ^ (members - 1), in hundredths
\* rounded down.
RECURSIVE Compounded(_)
Compounded(beyond_one) ==
    IF beyond_one <= 0 THEN 100
    ELSE (Compounded(beyond_one - 1) * (100 + MEMBERS_FACTOR_STEP)) \div 100

f_members_compounded(p) ==
    LET given   == Field(p, "number_of_insured_members")
        members == IF given = <<>> \/ given = <<0>> THEN 1 ELSE given[1]
    IN Compounded(members - 1)

\* members = req.number_of_insured_members or 1; 1.0 + beyond_one * step,
\* in hundredths
f_members(p) ==
    LET given   == Field(p, "number_of_insured_members")
        members == IF given = <<>> \/ given = <<0>> THEN 1 ELSE given[1]
    IN 100 + Max(0, members - 1) * MEMBERS_FACTOR_STEP

\* _bmi: the bmi field when it is given, in tenths; height and weight are
\* absent from the profiles here.
_bmi(p) == Field(p, "bmi")

f_bmi(p) == IF _bmi(p) # <<>> THEN _band(_bmi(p)[1], BMI_BANDS) ELSE 100

f_ex(p) ==
    LET given == Field(p, "exercise_frequency")
    IN EXERCISE_FACTOR(IF given # <<>> /\ given # <<"">> THEN given[1]
                       ELSE "3-4 times/week")

f_term(p) ==
    LET given == Field(p, "policy_term_years")
    IN TERM_FACTOR(IF given # <<>> /\ given # <<0>> THEN given[1] ELSE 1)

\* Exact fractions <<numerator, denominator>> in lowest terms, so that the
\* products stay within the integers of the checker.
RECURSIVE GCD(_, _)
GCD(a, b) == IF b = 0 THEN a ELSE GCD(b, a % b)

Ratio(n, d) == <<n \div GCD(n, d), d \div GCD(n, d)>>

\* x * (f / d) for a fraction x in lowest terms
Times(x, f, d) ==
    LET y  == Ratio(f, d)
        g1 == GCD(x[1], y[2])
        g2 == GCD(y[1], x[2])
    IN <<(x[1] \div g1) * (y[1] \div g2), (x[2] \div g2) * (y[2] \div g1)>>

\* base * f_age * f_members, in ten-thousandths.
RawAnnual(p) ==
    LET base  == _pick_base(p.sum_insured)
        age   == IF p.age # <<>> THEN p.age[1] ELSE DefaultAge
        f_age == _band(age, AGE_BANDS)
    IN base * f_age * f_members(p)

\* premium before the floor and the rounding: the product of the factors, as
\* a fraction.  The multipliers for smoking, alcohol, plan type, health
\* history and location are at their neutral 1.0 (the fields they read are
\* absent); none of them is below 1.0 for any value.
Product(p) ==
    Times(Times(Times(Ratio(RawAnnual(p), 10000), f_bmi(p), 100),
                f_ex(p), 100),
          f_term(p), 100)

\* max(3000.0, premium), then round(premium / 10.0) * 10.0
FlooredRounded(x) ==
    RoundHalfEven(Max(MinimumPremium * x[2], x[1]), 10 * x[2]) * 10

\* _compute_base_annual: the product floored at the minimum and rounded to
\* the nearest 10.
_compute_base_annual(p) == FlooredRounded(Product(p))

\* compute_total_payable: the headline number for the requested mode.
compute_total_payable(p) ==
    LET base_annual == _compute_base_annual(p)
        pay   == IF p.premium_payment_mode # <<>> /\ p.premium_payment_mode # <<"">>
                 THEN p.premium_payment_mode[1] ELSE "Yearly"
        total == Max(MinimumPremium * 1000, base_annual * PAYMENT_MODE_FACTOR(pay))
    IN RoundHalfEven(total, 10000) * 10

\* _round2(x) of compute_breakdown for x = n / d: floored at 3000 / 12 and
\* rounded to the nearest 10.
_round2(n, d) ==
    RoundHalfEven(Max((MinimumPremium \div 12) * d, n), 10 * d) * 10

\* The dictionary compute_breakdown returns.
Breakdown(yearly, half, quarter, month) ==
    ("Yearly" :> yearly) @@ ("Half-Yearly" :> half)
        @@ ("Quarterly" :> quarter) @@ ("Monthly" :> month)

\* compute_breakdown with the yearly installment left without its discount.
compute_breakdown_undiscounted(p) ==
    LET base_annual == _compute_base_annual(p)
    IN Breakdown(
        _round2(base_annual * 1000, 1000),
        _round2(base_annual * PAYMENT_MODE_FACTOR("Half-Yearly"), 2000),
        _round2(base_annual * PAYMENT_MODE_FACTOR("Quarterly"), 4000),
        _round2(base_annual * PAYMENT_MODE_FACTOR("Monthly"), 12000))

\* compute_breakdown with the yearly amount taken from the headline number.
compute_breakdown_from_headline(p) ==
    LET base_annual == _compute_base_annual(p)
    IN Breakdown(
        compute_total_payable(p),
        _round2(base_annual * PAYMENT_MODE_FACTOR("Half-Yearly"), 2000),
        _round2(base_annual * PAYMENT_MODE_FACTOR("Quarterly"), 4000),
        _round2(base_annual * PAYMENT_MODE_FACTOR("Monthly"), 12000))

\* compute_breakdown with the installments neither floored nor rounded to 10.
compute_breakdown_unrounded(p) ==
    LET base_annual == _compute_base_annual(p)
    IN Breakdown(
        (base_annual * PAYMENT_MODE_FACTOR("Yearly")) \div 1000,
        (base_annual * PAYMENT_MODE_FACTOR("Half-Yearly")) \div 2000,
        (base_annual * PAYMENT_MODE_FACTOR("Quarterly")) \div 4000,
        (base_annual * PAYMENT_MODE_FACTOR("Monthly")) \div 12000)

\* compute_breakdown: the amount per installment for the four modes.
compute_breakdown(p) ==
    LET base_annual == _compute_base_annual(p)
        total_yearly == base_annual * PAYMENT_MODE_FACTOR("Yearly")
    IN Breakdown(
        RoundHalfEven(Max(MinimumPremium * 1000, total_yearly), 10000) * 10,
        _round2(base_annual * PAYMENT_MODE_FACTOR("Half-Yearly"), 2000),
        _round2(base_annual * PAYMENT_MODE_FACTOR("Quarterly"), 4000),
        _round2(base_annual * PAYMENT_MODE_FACTOR("Monthly"), 12000))

(***************************************************************************)
(* Calls of the calculator.  A request is drawn, and each method is        *)
(* applied to it; cost holds the request and what the method returned.     *)
(***************************************************************************)
MaxMembers == 4   \* largest number_of_insured_members

CostAges == {<<>>, <<0>>, <<25>>, <<26>>, <<46>>, <<120>>}

CostSums == {<<>>, <<0>>, <<1>>, <<300000>>, <<300001>>, <<700000>>, <<5000000>>}

CostModes == {<<>>, <<"">>, <<"Yearly">>, <<"Half-Yearly">>, <<"Quarterly">>,
              <<"Monthly">>, <<"Weekly">>}

CostMembers == {<<>>} \cup {<<n>> : n \in 0..MaxMembers}

\* bmi in tenths
CostBmis == {<<>>, <<185>>, <<300>>}

CostExercise == {<<>>, <<"Daily">>}

CostTerms == {<<>>, <<3>>}

CostProfiles ==
    {Profile(a, s, m) @@ [number_of_insured_members |-> n, bmi |-> b,
                          exercise_frequency |-> x, policy_term_years |-> t] :
        a \in CostAges, s \in CostSums, m \in CostModes, n \in CostMembers,
        b \in CostBmis, x \in CostExercise, t \in CostTerms}

Called(op, p, result) == [op |-> op, profile |-> p, result |-> result]

PickBase ==
    /\ cost = NoCost
    /\ \E p \in CostProfiles :
          cost' = Called("_pick_base", p, [value |-> _pick_base(p.sum_insured)])
    /\ UNCHANGED <<rag, last, env, RAG, req, enc, health, th>>

ComputeBaseAnnual ==
    /\ cost = NoCost
    /\ \E p \in CostProfiles :
          cost' = Called("_compute_base_annual", p, [value |-> _compute_base_annual(p)])
    /\ UNCHANGED <<rag, last, env, RAG, req, enc, health, th>>

ComputeTotalPayable ==
    /\ cost = NoCost
    /\ \E p \in CostProfiles :
          cost' = Called("compute_total_payable", p, [value |-> compute_total_payable(p)])
    /\ UNCHANGED <<rag, last, env, RAG, req, enc, health, th>>

ComputeBreakdown ==
    /\ cost = NoCost
    /\ \E p \in CostProfiles :
          cost' = Called("compute_breakdown", p, compute_breakdown(p))
    /\ UNCHANGED <<rag, last, env, RAG, req, enc, health, th>>

\* The caller is done with the result.
CostReturn ==
    /\ cost # NoCost
    /\ cost' = NoCost
    /\ UNCHANGED <<rag, last, env, RAG, req, enc, health, th>>

NextCost ==
    \/ PickBase
    \/ ComputeBaseAnnual
    \/ ComputeTotalPayable
    \/ ComputeBreakdown
    \/ CostReturn

SpecCost == InitIndex /\ [][NextCost]_vars

(***************************************************************************)
(* routes/utils.py                                                         *)
(***************************************************************************)
\* A text is the sequence of its parts with the separator between them; a
\* part is its wording followed by the value, <<"Age: ", 30>> for "Age: 30".
Join(parts, sep) ==
    [i \in 1..(2 * Len(parts) - 1) |->
        IF i % 2 = 1 THEN parts[(i + 1) \div 2] ELSE sep]

\* build_query_text: one part per field that passes its test (age: is not
\* None; the others: truthy), in the code's order; the parts are joined by
\* spaces, and a fixed phrase stands in when there is none.
build_query_text(p) ==
    LET members == Field(p, "number_of_insured_members")
        term == Field(p, "policy_term_years")
        parts ==
            (IF p.age # <<>> THEN << <<"Age: ", p.age[1]>> >> ELSE <<>>)
         \o (IF members # <<>> /\ members # <<0>>
             THEN << <<"Members: ", members[1]>> >> ELSE <<>>)
         \o (IF p.sum_insured # <<>> /\ p.sum_insured # <<0>>
             THEN << <<"Sum Insured: ", p.sum_insured[1]>> >> ELSE <<>>)
         \o (IF term # <<>> /\ term # <<0>>
             THEN << <<"Term: ", term[1]>> >> ELSE <<>>)
         \o (IF p.premium_payment_mode # <<>> /\ p.premium_payment_mode # <<"">>
             THEN << <<"Payment: ", p.premium_payment_mode[1]>> >> ELSE <<>>)
    IN IF parts # <<>> THEN Join(parts, " ")
       ELSE << <<"Health insurance quote request">> >>

\* ingest.py, build_text_representation: one part per column of the row that
\* is not missing (pd.notna), joined by "; ".  A missing cell is <<>>.  The
\* wording of the sum insured ends with the rupee sign, written (Rs) here.
build_text_representation(row) ==
    LET parts ==
            (IF row.Age # <<>> THEN << <<"Age: ", row.Age[1]>> >> ELSE <<>>)
         \o (IF row.Number_of_Insured_Members # <<>>
             THEN << <<"Family size: ", row.Number_of_Insured_Members[1]>> >>
             ELSE <<>>)
         \o (IF row.Sum_Insured # <<>>
             THEN << <<"Sum insured: (Rs)", row.Sum_Insured[1]>> >> ELSE <<>>)
         \o (IF row.Policy_Term_Years # <<>>
             THEN << <<"Policy term: ", row.Policy_Term_Years[1], " years">> >>
             ELSE <<>>)
         \o (IF row.Premium_Payment_Mode # <<>>
             THEN << <<"Payment mode: ", row.Premium_Payment_Mode[1]>> >>
             ELSE <<>>)
    IN IF parts # <<>> THEN Join(parts, "; ")
       ELSE << <<"Insurance record">> >>

\* The historical record whose attributes equal those of the request.
RowOf(p) ==
    [Age |-> p.age,
     Number_of_Insured_Members |-> Field(p, "number_of_insured_members"),
     Sum_Insured |-> p.sum_insured,
     Policy_Term_Years |-> Field(p, "policy_term_years"),
     Premium_Payment_Mode |-> p.premium_payment_mode]

(***************************************************************************)
(* Calls of the two encoders.  A request is drawn and encoded as a query,  *)
(* or the record with the same attributes is encoded for the corpus.       *)
(***************************************************************************)
BuildQueryText ==
    /\ enc = NoText
    /\ \E p \in CostProfiles :
          enc' = [op |-> "build_query_text", profile |-> p,
                   result |-> build_query_text(p)]
    /\ UNCHANGED <<rag, last, env, RAG, req, cost, health, th>>

BuildTextRepresentation ==
    /\ enc = NoText
    /\ \E p \in CostProfiles :
          enc' = [op |-> "build_text_representation", profile |-> p,
                   result |-> build_text_representation(RowOf(p))]
    /\ UNCHANGED <<rag, last, env, RAG, req, cost, health, th>>

\* The caller is done with the text.
TextReturn ==
    /\ enc # NoText
    /\ enc' = NoText
    /\ UNCHANGED <<rag, last, env, RAG, req, cost, health, th>>

NextEncode == BuildQueryText \/ BuildTextRepresentation \/ TextReturn

SpecEncode == InitIndex /\ [][NextEncode]_vars

\* get_rag: the value left in _RAG and the value returned.  A slot already
\* set is returned as it is; otherwise a new RagIndex is loaded, and every
\* exception (the import of faiss included) is caught and leaves None.
get_rag(slot, e) ==
    IF slot # None THEN [slot |-> slot, ret |-> slot]
    ELSE IF ~e.faiss THEN [slot |-> None, ret |-> None]
    ELSE LET out == load(NewRagIndex, e)
         IN IF out.raised = NoError
            THEN [slot |-> out.rag, ret |-> out.rag]
            ELSE [slot |-> None, ret |-> None]

(***************************************************************************)
(* The embedding provider (services/embedding.py).  The call either        *)
(* raises (transport error or timeout after 30 s, HTTP error status, no    *)
(* "embedding" key) or yields a vector, which embed_texts divides by its   *)
(* norm.                                                                   *)
(***************************************************************************)
Norm(v) == CHOOSE n \in 0..Dot(v, v) : n * n = Dot(v, v)

L2Normalize(v) == [i \in DOMAIN v |-> v[i] \div Norm(v)]

EmbedOutcomes ==
    {[raised |-> "RuntimeError", vector |-> <<>>]}
        \cup {[raised |-> NoError, vector |-> L2Normalize(v)] : v \in Queries}

(***************************************************************************)
(* The generation provider (services/llm.py, generate_quote).  The call    *)
(* raises (transport error or timeout after 60 s, HTTP error status), or   *)
(* answers with text that is not JSON, or with a JSON object that has or   *)
(* lacks a premiumINR and a planName.                                      *)
(***************************************************************************)
DefaultPremium == 15000

DefaultPlanName == "Standard Health Plan"

ProviderAnswers ==
    { [kind |-> "raises",    premiumINR |-> <<>>,      planName |-> <<>>],
      [kind |-> "malformed", premiumINR |-> <<>>,      planName |-> <<>>],
      [kind |-> "json",      premiumINR |-> <<>>,      planName |-> <<>>],
      [kind |-> "json",      premiumINR |-> <<12340>>, planName |-> <<>>],
      [kind |-> "json",      premiumINR |-> <<12340>>, planName |-> <<"Provider Plan">>] }

\* generate_quote: what the call returns (a dictionary), or that it raised.
\* Text that does not parse is replaced by the default structure.
generate_quote(answer) ==
    CASE answer.kind = "raises"    -> [raised |-> "RequestException", data |-> <<>>]
      [] answer.kind = "malformed" -> [raised |-> NoError,
                                       data |-> [planName   |-> DefaultPlanName,
                                                 premiumINR |-> DefaultPremium]]
      [] OTHER -> [raised |-> NoError,
                   data |-> (IF answer.premiumINR = <<>> THEN <<>>
                             ELSE [premiumINR |-> answer.premiumINR[1]])
                         @@ (IF answer.planName = <<>> THEN <<>>
                             ELSE [planName |-> answer.planName[1]])]

(***************************************************************************)
(* POST /api/quote (routes/quote.py).  One invocation at a time; req.pc is *)
(* the stage about to run, req.calls the stages run so far, in order.      *)
(***************************************************************************)
TOP_K == 8

Ages == {<<>>, <<-1>>, <<0>>, <<30>>, <<120>>, <<150>>}
SumsInsured == {<<>>, <<0>>, <<500000>>}
Modes == {<<>>, <<"Monthly">>}
Terms == {<<>>, <<-1>>, <<1>>}

\* The bodies posted: sum_insured and policy_term_years are Optional[int]
\* with no validator, so the schema takes any integer for them.
Profiles ==
    {Profile(a, s, m) @@ [policy_term_years |-> t] :
        a \in Ages, s \in SumsInsured, m \in Modes, t \in Terms}

ErrorResponse(status, error, details) ==
    [status |-> status, error |-> error, details |-> details,
     planName |-> <<>>, premiumINR |-> <<>>, basedOnExamples |-> <<>>]

QuoteResponse(planName, premium, examples) ==
    [status |-> 200, error |-> "", details |-> "",
     planName |-> <<planName>>, premiumINR |-> <<premium>>,
     basedOnExamples |-> examples]

\* quote.py 44-51: the retrieved examples handed to the provider and returned.
ContextExample(result) ==
    [id |-> result.id, score |-> result.score, snippet |-> result.text,
     premium_inr |-> IF "premium_inr" \in DOMAIN result
                     THEN <<result.premium_inr>> ELSE <<>>]

\* The handler returns: the stage that ended it is logged with the response.
Finish(stage, response) ==
    req' = [req EXCEPT !.pc = "done", !.response = response,
                       !.calls = IF stage = "" THEN @ ELSE Append(@, stage)]

Receive ==
    /\ req.pc = "idle"
    /\ health = NoHealth
    /\ \E p \in Profiles :
         req' = [pc |-> "validate", profile |-> p, query_text |-> <<>>, rag |-> None,
                 query_embedding |-> <<>>, embed |-> "", search |-> "",
                 context_examples |-> <<>>, answer |-> "", calls |-> <<>>,
                 response |-> None]
    /\ UNCHANGED <<enc, health, th, cost, rag, last, env, RAG>>

\* quote.py 14-17
Validate ==
    /\ req.pc = "validate"
    /\ IF model_validate(req.profile)
       THEN req' = [req EXCEPT !.pc = "encode"]
       ELSE Finish("", ErrorResponse(400, "Invalid request data", "ValidationError"))
    /\ UNCHANGED <<enc, health, th, cost, rag, last, env, RAG>>

\* quote.py 20
Encode ==
    /\ req.pc = "encode"
    /\ req' = [req EXCEPT !.pc = "services",
                          !.query_text = build_query_text(req.profile),
                          !.calls = Append(@, "build_query_text")]
    /\ UNCHANGED <<enc, health, th, cost, rag, last, env, RAG>>

\* quote.py 23-28: none of the three accessors raises.
GetServices ==
    /\ req.pc = "services"
    /\ LET got == get_rag(RAG, env)
       IN /\ RAG' = got.slot
          /\ req' = [req EXCEPT !.pc = "embed", !.rag = got.ret,
                                !.calls = Append(@, "get_rag")]
    /\ UNCHANGED <<enc, health, th, cost, rag, last, env>>

\* Embed going on to the search after a failed embedding call.
Embed_continuing ==
    /\ req.pc = "embed"
    /\ \E out \in EmbedOutcomes :
         req' = [req EXCEPT !.pc = "search", !.query_embedding = out.vector,
                            !.embed = out.raised,
                            !.calls = Append(@, "embed_text")]
    /\ UNCHANGED <<enc, health, th, cost, rag, last, env, RAG>>

\* quote.py 31-34
Embed ==
    /\ req.pc = "embed"
    /\ \E out \in EmbedOutcomes :
         IF out.raised # NoError
         THEN req' = [req EXCEPT
                        !.pc = "done", !.embed = out.raised,
                        !.calls = Append(@, "embed_text"),
                        !.response = ErrorResponse(500, "Embedding generation failed",
                                                   out.raised)]
         ELSE req' = [req EXCEPT !.pc = "search", !.query_embedding = out.vector,
                                 !.embed = out.raised,
                                 !.calls = Append(@, "embed_text")]
    /\ UNCHANGED <<enc, health, th, cost, rag, last, env, RAG>>

\* quote.py 37-51: rag.search on None raises AttributeError, which the
\* handler's except clause catches like every other exception of the call.
SearchStage ==
    /\ req.pc = "search"
    /\ \E out \in (IF req.rag = None
                   THEN {[raised |-> "AttributeError", labels |-> <<>>, results |-> <<>>]}
                   ELSE search(req.rag, req.query_embedding, TOP_K)) :
         IF out.raised # NoError
         THEN req' = [req EXCEPT
                        !.pc = "done", !.search = out.raised,
                        !.calls = Append(@, "search"),
                        !.response = ErrorResponse(500, "RAG search failed", out.raised)]
         ELSE req' = [req EXCEPT
                        !.pc = "generate", !.search = out.raised,
                        !.calls = Append(@, "search"),
                        !.context_examples =
                            [i \in DOMAIN out.results |-> ContextExample(out.results[i])]]
    /\ UNCHANGED <<enc, health, th, cost, rag, last, env, RAG>>

\* quote.py 54-90: what the handler answers when the provider answers
\* `answer`.  The plan name and the premium are the provider's, or the
\* defaults when the dictionary has none; the examples are the context
\* examples.
GenerateResponse(context_examples, answer) ==
    LET out == generate_quote(answer)
    IN IF out.raised # NoError
       THEN ErrorResponse(500, "LLM generation failed", out.raised)
       ELSE QuoteResponse(Get(out.data, "planName", DefaultPlanName),
                          Get(out.data, "premiumINR", DefaultPremium),
                          context_examples)

Generate ==
    /\ req.pc = "generate"
    /\ \E answer \in ProviderAnswers :
         req' = [req EXCEPT
                   !.pc = "done", !.answer = answer.kind,
                   !.calls = Append(@, "generate_quote"),
                   !.response = GenerateResponse(req.context_examples, answer)]
    /\ UNCHANGED <<enc, health, th, cost, rag, last, env, RAG>>

\* The response is sent; the worker takes the next request.
Respond ==
    /\ req.pc = "done"
    /\ req' = IdleRequest
    /\ UNCHANGED <<enc, health, th, cost, rag, last, env, RAG>>

(***************************************************************************)
(* The artifacts the serving process can find: none, one of the two, a     *)
(* pair saved from an instance add_documents can build (with one record    *)
(* per row or not), a metadata file that does not parse, and an            *)
(* installation without faiss.                                             *)
(***************************************************************************)
SavedIndex(d, rows, metas) == [d |-> d, xb |-> rows, sup |-> SuppliedWith(rows, metas)]

Artifacts(faiss, d, rows, metas) ==
    [faiss |-> faiss, index |-> SavedIndex(d, rows, metas),
     meta |-> MetaFile("json", json_dump(metas))]

RecA == [text |-> "a", premium_inr |-> 100]
RecB == [premium_inr |-> 200]
RecC == [text |-> "c", id |-> 7, score |-> 9]

Environments ==
    { NoArtifacts,
      [NoArtifacts EXCEPT !.index = SavedIndex(2, << <<1, 0>> >>, <<RecA>>)],
      [NoArtifacts EXCEPT !.meta = MetaFile("json", json_dump(<<RecA>>))],
      Artifacts(TRUE, 2, << <<1, 0>>, <<0, 1>> >>, <<RecA, RecB>>),
      Artifacts(TRUE, 2, << <<1, 0>>, <<1, 0>> >>, <<RecC, RecA>>),
      Artifacts(TRUE, 2, << <<1, 0>>, <<0, 1>> >>, <<RecA>>),
      Artifacts(TRUE, 1, << <<1>> >>, <<RecA>>),
      [Artifacts(TRUE, 2, << <<1, 0>> >>, <<RecA>>) EXCEPT
          !.meta = MetaFile("garbage", <<>>)],
      Artifacts(FALSE, 2, << <<1, 0>>, <<0, 1>> >>, <<RecA, RecB>>) }

Init ==
    /\ rag = NewRagIndex
    /\ last = NoCall
    /\ env \in Environments
    /\ RAG = None
    /\ req = IdleRequest
    /\ cost = NoCost
    /\ enc = NoText
    /\ health = NoHealth
    /\ th = NoThreads

(***************************************************************************)
(* GET /rag/status (routes/health.py).  get_stats raises nothing, so the   *)
(* handler's except branch (status 500) is never taken.                    *)
(***************************************************************************)
StatusResponse(status, body) == [status |-> status, body |-> body]

\* rag_status: the value left in _RAG and the response.
rag_status(slot, e) ==
    LET got == get_rag(slot, e)
    IN [slot |-> got.slot,
        response |-> IF got.ret = None
                     THEN StatusResponse(200, [status |-> "not_ready"])
                     ELSE StatusResponse(200, get_stats(got.ret))]

\* The handler runs while no quote request is in hand.
RagStatus ==
    /\ req.pc = "idle"
    /\ health = NoHealth
    /\ LET out == rag_status(RAG, env)
       IN /\ RAG' = out.slot
          /\ health' = [pc |-> "done", before |-> RAG, response |-> out.response]
    /\ UNCHANGED <<enc, th, cost, rag, last, env, req>>

\* The response has been sent.
StatusSent ==
    /\ health # NoHealth
    /\ health' = NoHealth
    /\ UNCHANGED <<enc, th, cost, rag, last, env, RAG, req>>

Next ==
    \/ RagStatus
    \/ StatusSent
    \/ Receive
    \/ Validate
    \/ Encode
    \/ GetServices
    \/ Embed
    \/ SearchStage
    \/ Generate
    \/ Respond

Spec == Init /\ [][Next]_vars

\* The handler runs to its return statement: no stage waits for anything but
\* its own call, and both provider calls carry a timeout (embedding.py 28,
\* llm.py 103), so a stage that can run does run.
SpecLive ==
    /\ Spec
    /\ WF_vars(Validate)
    /\ WF_vars(Encode)
    /\ WF_vars(GetServices)
    /\ WF_vars(Embed)
    /\ WF_vars(SearchStage)
    /\ WF_vars(Generate)

(***************************************************************************)
(* Threads of one serving process.  Each thread runs get_rag line by line  *)
(* (routes/utils.py 26-53, the line numbers are in the names of the        *)
(* positions), then may search the instance it was given (rag.py 28-51:    *)
(* the FAISS lookup, then the loop over self.metadata), or calls the       *)
(* calculator.  _RAG is shared; so is the loaded RagIndex object: rag is   *)
(* the object the loads of this process made (all of them hold the same    *)
(* contents), and the slot and the threads' results refer to it.           *)
(* Meanwhile the ingest script may write the two artifacts, faiss.index    *)
(* before meta.json (rag.py 62-67).                                        *)
(***************************************************************************)
Threads == {1, 2}

IdleThread ==
    [pc |-> "idle", after |-> FALSE, rag |-> None, ret |-> None, op |-> "",
     profile |-> None, q |-> <<>>, k |-> 0, labels |-> <<>>, result |-> None]

\* The instance ingest.py builds and saves.
IngestedIndex ==
    add_documents(NewRagIndex, 2, << <<1, 0>>, <<0, 1>> >>, <<RecA, RecB>>).rag

ConcProfiles ==
    { Profile(<<>>, <<>>, <<>>), Profile(<<30>>, <<500000>>, <<"Monthly">>) }

InitConc ==
    /\ rag = NewRagIndex
    /\ last = NoCall
    /\ env = NoArtifacts
    /\ RAG = None
    /\ req = IdleRequest
    /\ cost = NoCost
    /\ enc = NoText
    /\ health = NoHealth
    /\ th = [of |-> [t \in Threads |-> IdleThread], published |-> FALSE]

\* rag.save, first half: faiss.write_index
IngestWriteIndex ==
    /\ env.index = None
    /\ env' = [env EXCEPT !.index = save(IngestedIndex, env).env.index]
    /\ UNCHANGED <<rag, last, RAG, req, cost, enc, health, th>>

\* rag.save, second half: json.dump
IngestWriteMeta ==
    /\ env.index # None
    /\ env.meta.kind = "absent"
    /\ env' = save(IngestedIndex, env).env
    /\ UNCHANGED <<rag, last, RAG, req, cost, enc, health, th>>

\* A thread enters get_rag.  after records whether some call had already
\* published a loaded index.
GetRagCall ==
    \E t \in Threads :
        /\ th.of[t].pc = "idle"
        /\ th' = [th EXCEPT !.of[t] = [IdleThread EXCEPT !.pc = "L32",
                                                         !.op = "get_rag",
                                                         !.after = th.published]]
        /\ UNCHANGED <<rag, last, env, RAG, req, cost, enc, health>>

\* utils.py 32: if _RAG is not None
GetRagTest ==
    \E t \in Threads :
        /\ th.of[t].pc = "L32"
        /\ th' = [th EXCEPT !.of[t].pc = IF RAG # None THEN "L33" ELSE "L41"]
        /\ UNCHANGED <<rag, last, env, RAG, req, cost, enc, health>>

\* utils.py 33: return _RAG, which reads the global again
GetRagReturnSlot ==
    \E t \in Threads :
        /\ th.of[t].pc = "L33"
        /\ th' = [th EXCEPT !.of[t].pc = "returned", !.of[t].ret = RAG]
        /\ UNCHANGED <<rag, last, env, RAG, req, cost, enc, health>>

\* utils.py 41-43: the import, RagIndex() and rag.load
GetRagLoad ==
    \E t \in Threads :
        /\ th.of[t].pc = "L41"
        /\ LET out == load(NewRagIndex, env)
           IN IF ~env.faiss
              THEN /\ th' = [th EXCEPT !.of[t].pc = "L50"]
                   /\ rag' = rag
              ELSE IF out.raised = NoError
              THEN /\ th' = [th EXCEPT !.of[t].pc = "L44", !.of[t].rag = out.rag]
                   /\ rag' = out.rag
              ELSE /\ th' = [th EXCEPT !.of[t].pc =
                                IF out.raised = "FileNotFoundError"
                                THEN "L46" ELSE "L50"]
                   /\ rag' = rag
        /\ UNCHANGED <<last, env, RAG, req, cost, enc, health>>

\* utils.py 44: _RAG = rag
GetRagPublish ==
    \E t \in Threads :
        /\ th.of[t].pc = "L44"
        /\ RAG' = th.of[t].rag
        /\ th' = [th EXCEPT !.of[t].pc = "L45", !.published = TRUE]
        /\ UNCHANGED <<rag, last, env, req, cost, enc, health>>

\* utils.py 45: return _RAG, which reads the global again
GetRagReturnPublished ==
    \E t \in Threads :
        /\ th.of[t].pc = "L45"
        /\ th' = [th EXCEPT !.of[t].pc = "returned", !.of[t].ret = RAG]
        /\ UNCHANGED <<rag, last, env, RAG, req, cost, enc, health>>

\* utils.py 46-53: either except clause: _RAG = None; return None
GetRagReset ==
    \E t \in Threads :
        /\ th.of[t].pc \in {"L46", "L50"}
        /\ RAG' = None
        /\ th' = [th EXCEPT !.of[t].pc = "returned", !.of[t].ret = None]
        /\ UNCHANGED <<rag, last, env, req, cost, enc, health>>

\* rag.py 30-38 on the instance get_rag returned: the FAISS lookup
SearchScan ==
    \E t \in Threads, q \in Queries, k \in 1..MaxTopK :
        /\ th.of[t].pc = "returned"
        /\ th.of[t].ret # None
        /\ IF rag.index = None
           THEN th' = [th EXCEPT !.of[t].pc = "searched", !.of[t].op = "search",
                         !.of[t].q = q, !.of[t].k = k,
                         !.of[t].result = [raised |-> "ValueError", labels |-> <<>>,
                                           results |-> <<>>]]
           ELSE IF Len(q) # rag.index.d
           THEN th' = [th EXCEPT !.of[t].pc = "searched", !.of[t].op = "search",
                         !.of[t].q = q, !.of[t].k = k,
                         !.of[t].result = [raised |-> "AssertionError",
                                           labels |-> <<>>, results |-> <<>>]]
           ELSE \E lab \in FaissLabels(rag.index, q, k) :
                   th' = [th EXCEPT !.of[t].pc = "scanned", !.of[t].op = "search",
                            !.of[t].q = q, !.of[t].k = k, !.of[t].labels = lab]
        /\ UNCHANGED <<rag, last, env, RAG, req, cost, enc, health>>

\* What the loop of search gives for the labels the lookup found.
Collected(r, q, lab) ==
    IF \E i \in DOMAIN lab : lab[i] > Len(r.metadata)
    THEN [raised |-> "IndexError", labels |-> lab, results |-> <<>>]
    ELSE [raised |-> NoError, labels |-> lab,
          results |-> [i \in DOMAIN lab |-> ResultOf(r, q, lab[i])]]

\* The loop of search taking each record it reads off the metadata list.
SearchCollect_consuming ==
    \E t \in Threads :
        /\ th.of[t].pc = "scanned"
        /\ th' = [th EXCEPT !.of[t].pc = "searched",
                     !.of[t].result = Collected(rag, th.of[t].q, th.of[t].labels)]
        /\ rag' = [rag EXCEPT !.metadata = <<>>]
        /\ RAG' = IF RAG = None THEN None ELSE rag'
        /\ UNCHANGED <<last, env, req, cost, enc, health>>

\* rag.py 40-51: the loop over the labels, reading self.metadata
SearchCollect ==
    \E t \in Threads :
        /\ th.of[t].pc = "scanned"
        /\ th' = [th EXCEPT !.of[t].pc = "searched",
                     !.of[t].result = Collected(rag, th.of[t].q, th.of[t].labels)]
        /\ UNCHANGED <<rag, last, env, RAG, req, cost, enc, health>>

\* A thread calls compute_total_payable or compute_breakdown.
ThreadCompute ==
    \E t \in Threads, p \in ConcProfiles :
        /\ th.of[t].pc = "idle"
        /\ \/ th' = [th EXCEPT !.of[t].pc = "computed",
                        !.of[t].op = "compute_total_payable", !.of[t].profile = p,
                        !.of[t].result = [value |-> compute_total_payable(p)]]
           \/ th' = [th EXCEPT !.of[t].pc = "computed",
                        !.of[t].op = "compute_breakdown", !.of[t].profile = p,
                        !.of[t].result = compute_breakdown(p)]
        /\ UNCHANGED <<rag, last, env, RAG, req, cost, enc, health>>

\* The thread is done with what it was given.
ThreadDone ==
    \E t \in Threads :
        /\ th.of[t].pc \in {"returned", "searched", "computed"}
        /\ th' = [th EXCEPT !.of[t] = IdleThread]
        /\ UNCHANGED <<rag, last, env, RAG, req, cost, enc, health>>

NextConc ==
    \/ IngestWriteIndex
    \/ IngestWriteMeta
    \/ GetRagCall
    \/ GetRagTest
    \/ GetRagReturnSlot
    \/ GetRagLoad
    \/ GetRagPublish
    \/ GetRagReturnPublished
    \/ GetRagReset
    \/ SearchScan
    \/ SearchCollect
    \/ ThreadCompute
    \/ ThreadDone

SpecConc == InitConc /\ [][NextConc]_vars

(***************************************************************************)
(* Claims about POST /api/quote, checked under Spec.                       *)
(***************************************************************************)
Answered == req.pc = "done"

ValidRequest == Answered /\ model_validate(req.profile)

AgeOutOfRange(p) == p.age # <<>> /\ (p.age[1] < 0 \/ p.age[1] > 120)

\* C1: when get_rag yields no index, a request with a valid profile (whose
\* embedding call succeeds) ends in a successful response with an empty
\* list of retrieved examples.
C1_NoIndexStillQuotes ==
    (ValidRequest /\ req.embed = NoError /\ req.rag = None)
        => (req.response.status = 200 /\ req.response.basedOnExamples = <<>>)

\* C2: when the embedding call fails for a valid profile, the request ends
\* in a successful response that carries the deterministic price.
C2_EmbeddingFailureDegrades ==
    (ValidRequest /\ req.embed \notin {"", NoError})
        => /\ req.response.status = 200
           /\ req.response.premiumINR = <<compute_total_payable(req.profile)>>

\* C3: when the generation provider raises or returns malformed output, the
\* request succeeds and its headline amount is the cost-matrix value.
C3_GenerationFailureKeepsBaseline ==
    (ValidRequest /\ req.answer \in {"raises", "malformed"})
        => /\ req.response.status = 200
           /\ req.response.premiumINR = <<compute_total_payable(req.profile)>>

\* The words of an error field of the handler, for the substring test.
ErrorWords(e) ==
    CASE e = "Invalid request data"        -> <<"Invalid", "request", "data">>
      [] e = "Embedding generation failed" -> <<"Embedding", "generation", "failed">>
      [] e = "RAG search failed"           -> <<"RAG", "search", "failed">>
      [] e = "LLM generation failed"       -> <<"LLM", "generation", "failed">>
      [] OTHER                             -> <<>>

\* sub in text, word by word
ContainsWords(text, sub) ==
    \E at \in 0..Len(text) :
        /\ at + Len(sub) <= Len(text)
        /\ \A n \in 1..Len(sub) : text[at + n] = sub[n]

\* The text test_backend.py looks for in the error field.
FaissIndexNotFound == <<"FAISS", "index", "not", "found">>

\* C4: when neither artifact exists, a request with a valid profile ends with
\* status 500 and an error field containing 'FAISS index not found'.
C4_MissingIndexReported ==
    (ValidRequest /\ env.index = None /\ env.meta.kind = "absent")
        => /\ req.response.status = 500
           /\ ContainsWords(ErrorWords(req.response.error), FaissIndexNotFound)

\* C5: a profile whose age is outside [0,120] is answered 400 by validation,
\* and no later stage (query text, services, embedding, search, generation)
\* has run for it at any point of the request.
C5_BadAgeRejectedFirst ==
    (req.pc # "idle" /\ AgeOutOfRange(req.profile))
        => /\ req.calls = <<>>
           /\ req.pc \in {"validate", "done"}
           /\ req.pc = "done" =>
                 (req.response.status = 400
                    /\ req.response.error = "Invalid request data")

\* C5's case: the request with age 150 has been answered 400.
C5_Witness ==
    /\ Answered
    /\ req.profile.age = <<150>>
    /\ req.response.status = 400
    /\ req.calls = <<>>

\* get_rag has run for the request in hand.
GotRag == req.pc # "idle" /\ \E n \in DOMAIN req.calls : req.calls[n] = "get_rag"

\* C12: when meta.json holds a number of records other than the number of
\* vectors in faiss.index, load raises, and no instance whose vector and
\* metadata counts differ is left in the slot.
C12_MismatchedCountsRejected ==
    /\ RAG # None => ntotal(RAG.index) = Len(RAG.metadata)
    /\ ( /\ GotRag /\ env.faiss
         /\ env.index # None /\ env.meta.kind = "json"
         /\ Len(env.meta.records) # ntotal(env.index) )
          => (load(NewRagIndex, env).raised # NoError /\ RAG = None)

\* C13: when faiss.index or meta.json is absent (either one, or both), load
\* raises FileNotFoundError, and get_rag leaves the slot empty.
C13_AbsentArtifactNotFound ==
    (GotRag /\ env.faiss /\ (env.index = None \/ env.meta.kind = "absent"))
        => /\ load(NewRagIndex, env).raised = "FileNotFoundError"
           /\ RAG = None
           /\ req.rag = None

\* C13's case: the index file is there and the metadata file is not, and
\* the request's get_rag has come back with nothing.
C13_Witness ==
    /\ GotRag /\ env.faiss
    /\ env.index # None /\ env.meta.kind = "absent"
    /\ load(NewRagIndex, env).raised = "FileNotFoundError"
    /\ req.rag = None

\* The generation stage has run for the request in hand.
Generated == Answered /\ req.answer # ""

\* The response without its headline amount.
BesidesHeadline(response) == [response EXCEPT !.premiumINR = <<>>]

\* C20: whatever the generation provider returns, only the headline amount
\* of the response depends on it: the response is successful, its examples
\* are the results of the search in rank order (id, score, snippet,
\* premium), and every field but the headline is what it would be for any
\* other answer of the provider.
C20_ProviderChangesHeadlineOnly ==
    Generated =>
        /\ req.response.status = 200
        /\ \E out \in search(req.rag, req.query_embedding, TOP_K) :
              /\ out.raised = NoError
              /\ req.response.basedOnExamples =
                     [i \in DOMAIN out.results |-> ContextExample(out.results[i])]
        /\ \A answer \in ProviderAnswers :
              BesidesHeadline(GenerateResponse(req.context_examples, answer))
                  = BesidesHeadline(req.response)

(***************************************************************************)
(* Claims about RagIndex, checked under SpecIndex.                         *)
(***************************************************************************)
HasIndex(r) == r.index # None

Searched == last.op = "search"

Returned == Searched /\ last.raised = NoError

\* C6: add_documents rejects a call whose rows and records differ in number,
\* or whose rows do not have the index's dimension, and stores nothing from
\* it; so the vector count equals the metadata count in every state.
C6_AddKeepsCountsEqual ==
    /\ HasIndex(rag) => ntotal(rag.index) = Len(rag.metadata)
    /\ ( /\ last.op = "add_documents"
         /\ \/ Len(last.rows) # Len(last.metas)
            \/ HasIndex(last.before) /\ last.d # last.before.index.d )
          => (last.raised # NoError /\ rag = last.before)

\* C7: every result's id is the insertion ordinal of the matched row, and its
\* text and premium are those of the record supplied with that row.
C7_ResultIsOrdinalWithOwnMetadata ==
    Returned =>
        \A j \in DOMAIN last.results :
            LET r   == last.results[j]
                pos == last.labels[j]
                own == rag.index.sup[pos]
            IN /\ r.id = pos - 1
               /\ own # <<>>
               /\ r.text = Get(own[1], "text", "")
               /\ ("premium_inr" \in DOMAIN r) = ("premium_inr" \in DOMAIN own[1])
               /\ "premium_inr" \in DOMAIN r => r.premium_inr = own[1].premium_inr

\* C8: search returns at most k results in descending score order, results
\* of equal score in ascending id order.
C8_DescendingScoreAscendingId ==
    Returned =>
        /\ Len(last.results) <= last.k
        /\ \A i, j \in DOMAIN last.results :
              i < j => /\ last.results[i].score >= last.results[j].score
                       /\ last.results[i].score = last.results[j].score
                              => last.results[i].id < last.results[j].id

\* C9: a search with k above the number N of entries returns exactly N
\* results, each a distinct entry of the index.
C9_ExactlyIndexSizeResults ==
    (Searched /\ HasIndex(rag) /\ Len(last.q) = rag.index.d
              /\ last.k > ntotal(rag.index))
        => /\ last.raised = NoError
           /\ Len(last.results) = ntotal(rag.index)
           /\ (\A n \in DOMAIN last.labels : last.labels[n] \in 1..ntotal(rag.index))
           /\ \A i, j \in DOMAIN last.labels : i # j => last.labels[i] # last.labels[j]

\* C10: on an index of (pairwise distinct) normalized vectors V, a search
\* with the query V[i] returns id i first, with score 1.
C10_OwnVectorFirst ==
    (Searched /\ HasIndex(rag)
        /\ (\A n \in 1..ntotal(rag.index) : IsNormalized(rag.index.xb[n]))
        /\ (\A m, n \in 1..ntotal(rag.index) :
               m # n => rag.index.xb[m] # rag.index.xb[n]))
        => \A i \in 1..ntotal(rag.index) :
               last.q = rag.index.xb[i]
                   => /\ last.raised = NoError
                      /\ last.results # <<>>
                      /\ last.results[1].id = i - 1
                      /\ last.results[1].score = 1

\* C11: search on an instance that holds no entries (no index created or
\* loaded, or an index created with zero vectors) raises the "Index not
\* loaded" error; it never returns normally.
C11_EmptyIndexSearchFails ==
    (Searched /\ (~HasIndex(rag) \/ ntotal(rag.index) = 0))
        => last.raised = "ValueError"

(***************************************************************************)
(* Claims about save and load, checked under SpecStore.                    *)
(***************************************************************************)
\* load has just been called on a new instance, and the two artifacts are
\* what rag.save writes.
RoundTripped ==
    /\ last.op = "load"
    /\ HasIndex(rag)
    /\ env = save(rag, env).env

\* C14: after a built index is saved and the two artifacts are loaded into a
\* new instance, get_stats gives the same vector count, dimension and
\* metadata count on both instances, and for every query and k search ends
\* the same way with the same results on both.
C14_SaveLoadRoundTrip ==
    RoundTripped =>
        /\ last.raised = NoError
        /\ get_stats(RAG) = get_stats(rag)
        /\ \A q \in Queries, k \in 1..MaxTopK : search(RAG, q, k) = search(rag, q, k)

\* C14's case: an index of two vectors with a record each has gone through
\* save and load, and a search of the loaded instance returns both entries.
C14_Witness ==
    /\ RoundTripped
    /\ last.raised = NoError
    /\ get_stats(rag).total_vectors = 2
    /\ get_stats(RAG).metadata_count = 2
    /\ \E out \in search(RAG, <<1, 0>>, 2) :
          out.raised = NoError /\ Len(out.results) = 2

(***************************************************************************)
(* Claims about CostMatrixCalculator, checked under SpecCost.              *)
(***************************************************************************)
InstallmentLabels == {"Yearly", "Half-Yearly", "Quarterly", "Monthly"}

\* C15: each of the four amounts compute_breakdown returns is at least the
\* installment floor, minimum premium / 12, and is a multiple of 10.
C15_BreakdownFlooredAndRounded ==
    cost.op = "compute_breakdown" =>
        \A label \in InstallmentLabels :
            /\ cost.result[label] >= MinimumPremium \div 12
            /\ cost.result[label] % 10 = 0

\* C15's case: the breakdown of the cheapest request (age 25, sum insured
\* 300000, one member), whose monthly amount 525 is rounded to 520.
C15_Witness ==
    /\ cost.op = "compute_breakdown"
    /\ _compute_base_annual(cost.profile) = 6300
    /\ cost.result["Monthly"] = 520
    /\ cost.result["Yearly"] = 6170

\* C16: for a request whose premium_payment_mode is "Yearly" or absent, the
\* Yearly amount of compute_breakdown equals compute_total_payable.
C16_YearlyEqualsHeadline ==
    ( /\ cost.op = "compute_breakdown"
      /\ cost.profile.premium_payment_mode \in {<<>>, <<"Yearly">>} )
        => cost.result["Yearly"] = compute_total_payable(cost.profile)

\* C16's case: a breakdown computed for a request that asks for "Yearly",
\* whose headline carries the yearly discount.
C16_Witness ==
    /\ cost.op = "compute_breakdown"
    /\ cost.profile.premium_payment_mode = <<"Yearly">>
    /\ cost.result["Yearly"] = compute_total_payable(cost.profile)
    /\ cost.result["Yearly"] < _compute_base_annual(cost.profile)

OneMember(p) == [p EXCEPT !.number_of_insured_members = <<1>>]

MoreThanOneMember(p) ==
    /\ p.number_of_insured_members # <<>>
    /\ p.number_of_insured_members[1] > 1

\* 1 + 0.08 * (n - 1), in hundredths
LinearFactor(n) == 100 + 8 * (n - 1)

\* 1.08 ^ (n - 1), in ten-thousandths rounded down
RECURSIVE CompoundedFactor(_)
CompoundedFactor(n) ==
    IF n <= 1 THEN 10000 ELSE (CompoundedFactor(n - 1) * 108) \div 100

\* The one-member product of the factors before the floor and the rounding.
OneMemberRaw(p) == Product(OneMember(p))

\* C17 as stated: going from 1 member to n > 1 strictly increases the base
\* annual premium, and the n-member premium is exactly the one-member
\* premium times 1 + 0.08 * (n - 1).
C17_MembersScaleExactly ==
    (cost.op = "_compute_base_annual" /\ MoreThanOneMember(cost.profile))
        => LET n   == cost.profile.number_of_insured_members[1]
               one == _compute_base_annual(OneMember(cost.profile))
           IN /\ cost.result.value > one
              /\ cost.result.value * 100 = one * LinearFactor(n)

\* C17, amended: going from 1 member to n > 1 strictly increases the base
\* annual premium; the n-member premium is the one-member product of the
\* factors times 1 + 0.08 * (n - 1), floored at the minimum and rounded to
\* the nearest 10, so it is the one-member premium times that factor to
\* within the two roundings; and for n >= 3 it is not what the compounded
\* factor 1.08 ^ (n - 1) gives, whose product is more than 10 above.
C17_MembersScaleLinearlyThenRound ==
    (cost.op = "_compute_base_annual" /\ MoreThanOneMember(cost.profile))
        => LET n      == cost.profile.number_of_insured_members[1]
               one    == _compute_base_annual(OneMember(cost.profile))
               raw    == OneMemberRaw(cost.profile)
               linear == FlooredRounded(Times(raw, LinearFactor(n), 100))
               \* what the compounded factor adds to the product beyond
               \* the linear one, at least, in ten-thousandths
               excess == (raw[1] \div raw[2])
                             * (CompoundedFactor(n) - 100 * LinearFactor(n))
               distance == cost.result.value * 100 - one * LinearFactor(n)
           IN /\ cost.result.value > one
              /\ cost.result.value = linear
              /\ distance <= 500 + 5 * LinearFactor(n)
              /\ -distance <= 500 + 5 * LinearFactor(n)
              /\ n >= 3 => excess > 10 * 10000

\* C17's case: three members at age 25 and sum insured 300000: 6300 for one
\* member, 6300 * 1.16 = 7308 rounded to 7310 for three.
C17_Witness ==
    /\ cost.op = "_compute_base_annual"
    /\ cost.profile.number_of_insured_members = <<3>>
    /\ _compute_base_annual(OneMember(cost.profile)) = 6300
    /\ cost.result.value = 7310

\* The rate of the smallest configured band whose threshold is >= the sum.
SmallestBandRate(sum) ==
    LET reach == {i \in DOMAIN BASE_BY_SUM_INSURED : BASE_BY_SUM_INSURED[i][1] >= sum}
        i == CHOOSE i \in reach :
                 \A j \in reach : BASE_BY_SUM_INSURED[i][1] <= BASE_BY_SUM_INSURED[j][1]
    IN BASE_BY_SUM_INSURED[i][2]

LargestThreshold == BASE_BY_SUM_INSURED[Len(BASE_BY_SUM_INSURED)][1]

\* C18: for a sum insured that is present and at most the largest threshold,
\* _pick_base returns the rate of the smallest band whose threshold is >=
\* the sum; it returns the default rate when the sum insured is absent, and
\* only then takes the default.
C18_SmallestBandAtLeastSum ==
    cost.op = "_pick_base" =>
        LET sum == cost.profile.sum_insured
        IN IF sum = <<>>
           THEN cost.result.value = DefaultBase
           ELSE sum[1] <= LargestThreshold
                    => cost.result.value = SmallestBandRate(sum[1])

\* C19: compute_breakdown returns all four labels, and the amounts do not
\* depend on the request's premium_payment_mode.
C19_BreakdownIgnoresMode ==
    cost.op = "compute_breakdown" =>
        /\ DOMAIN cost.result = InstallmentLabels
        /\ \A mode \in CostModes :
              compute_breakdown([cost.profile EXCEPT !.premium_payment_mode = mode])
                  = cost.result

\* C19's case: a breakdown computed for a request that asks for "Monthly",
\* whose headline number is not the breakdown's yearly amount.
C19_Witness ==
    /\ cost.op = "compute_breakdown"
    /\ cost.profile.premium_payment_mode = <<"Monthly">>
    /\ compute_total_payable(cost.profile) # cost.result["Yearly"]
    /\ cost.result = compute_breakdown(
                         [cost.profile EXCEPT !.premium_payment_mode = <<"Yearly">>])

(***************************************************************************)
(* Claims about the two encoders, checked under SpecEncode.                *)
(***************************************************************************)
\* C21: a request and the historical record with the same attributes are
\* encoded to the same text: same fields, same order, same wording, same
\* separator, same rule for leaving a field out.
C21_EncodersAgree ==
    enc.op # "none" =>
        build_query_text(enc.profile)
            = build_text_representation(RowOf(enc.profile))

(***************************************************************************)
(* Claims about validated profiles, checked under Spec.                    *)
(***************************************************************************)
\* The request in hand passed validation and its profile was handed to
\* build_query_text.
ReachedEncoder ==
    /\ req.pc # "idle"
    /\ \E i \in DOMAIN req.calls : req.calls[i] = "build_query_text"

PositiveWhenPresent(v) == v # <<>> => v[1] > 0

\* C22: a profile that passed validation and reached the encoder has its
\* age in 0..120 when present, and a sum insured and a policy term that are
\* strictly positive when present.
C22_ValidatedProfileInRange ==
    ReachedEncoder =>
        /\ ~AgeOutOfRange(req.profile)
        /\ PositiveWhenPresent(req.profile.sum_insured)
        /\ PositiveWhenPresent(req.profile.policy_term_years)

(***************************************************************************)
(* Claims about normalization, checked under SpecIndex.                    *)
(***************************************************************************)
\* C23: the index normalizes what it stores and what it is asked about:
\* every stored row has unit norm, and every score of a search is the inner
\* product of two unit vectors, so it lies in -1..1, whatever the caller
\* supplied.
C23_IndexNormalizes ==
    /\ HasIndex(rag) =>
          \A i \in DOMAIN rag.index.xb : IsNormalized(rag.index.xb[i])
    /\ (Searched /\ last.raised \in {NoError, "IndexError"}) =>
          \A j \in DOMAIN last.labels :
              Dot(rag.index.xb[last.labels[j]], last.q) \in -1..1

(***************************************************************************)
(* Claims about a failing load, checked under SpecStore.                   *)
(***************************************************************************)
\* C27: load either replaces the index and the metadata of the instance with
\* the contents of the two artifacts, or fails and leaves the instance as it
\* was before the call (load is called on a new instance here).
C27_LoadAllOrNothing ==
    last.op = "load" =>
        IF last.raised = NoError
        THEN /\ RAG.index = env.index
             /\ RAG.metadata = json_load(env.meta.records)
        ELSE RAG = NewRagIndex

(***************************************************************************)
(* Claims about GET /rag/status, checked under Spec.                       *)
(***************************************************************************)
\* The artifacts cannot be loaded as an index: faiss is not installed, an
\* artifact is missing, meta.json does not parse, or the two artifacts do
\* not hold the same number of entries.
Unloadable(e) ==
    \/ ~e.faiss
    \/ e.index = None
    \/ e.meta.kind # "json"
    \/ Len(e.meta.records) # ntotal(e.index)

StatusAnswered == health.pc = "done"

\* C25: whenever the artifacts cannot be loaded, get_rag leaves the slot
\* empty without raising, and GET /rag/status answers 200 with the status
\* not_ready.
C25_LoadFailureGivesNotReady ==
    (StatusAnswered /\ Unloadable(env)) =>
        /\ RAG = None
        /\ health.response = StatusResponse(200, [status |-> "not_ready"])

(***************************************************************************)
(* Claims about the floors of the calculator, checked under SpecCost.      *)
(***************************************************************************)
\* _compute_base_annual without its floor
UnflooredBaseAnnual(p) ==
    RoundHalfEven(Product(p)[1], 10 * Product(p)[2]) * 10

\* The amount of one mode with no floor at all: base_annual times the
\* mode's factor over the number of installments, rounded to the nearest 10.
UnflooredInstallment(p, mode, installments) ==
    RoundHalfEven(_compute_base_annual(p) * PAYMENT_MODE_FACTOR(mode),
                  10000 * installments) * 10

RequestedMode(p) ==
    IF p.premium_payment_mode # <<>> /\ p.premium_payment_mode # <<"">>
    THEN p.premium_payment_mode[1] ELSE "Yearly"

\* C28: for every profile the product of the factors is above the minimum of
\* 3000 and every installment is above 3000 / 12, so each method returns
\* what it would return without its floors; the Yearly installment floored
\* at 3000 is what the floor of the other installments, 3000 / 12, gives.
C28_FloorsNeverBind ==
    cost.op # "none" =>
        LET p == cost.profile
            base_annual == _compute_base_annual(p)
        IN /\ Product(p)[1] > MinimumPremium * Product(p)[2]
           /\ base_annual * PAYMENT_MODE_FACTOR("Half-Yearly")
                  > (MinimumPremium \div 12) * 2000
           /\ base_annual * PAYMENT_MODE_FACTOR("Quarterly")
                  > (MinimumPremium \div 12) * 4000
           /\ base_annual * PAYMENT_MODE_FACTOR("Monthly")
                  > (MinimumPremium \div 12) * 12000
           /\ cost.op = "_compute_base_annual" =>
                  cost.result.value = UnflooredBaseAnnual(p)
           /\ cost.op = "compute_total_payable" =>
                  cost.result.value = UnflooredInstallment(p, RequestedMode(p), 1)
           /\ cost.op = "compute_breakdown" =>
                  /\ cost.result = Breakdown(
                         UnflooredInstallment(p, "Yearly", 1),
                         UnflooredInstallment(p, "Half-Yearly", 2),
                         UnflooredInstallment(p, "Quarterly", 4),
                         UnflooredInstallment(p, "Monthly", 12))
                  /\ cost.result["Yearly"]
                         = _round2(base_annual * PAYMENT_MODE_FACTOR("Yearly"), 1000)

\* C28's case: the cheapest profile (youngest age band, smallest sum, lowest
\* BMI band, daily exercise, a three-year term, one member): the product is
\* 7000 * 0.90 * 0.95 * 0.97 * 0.98 = 5689.341, the base annual premium 5690
\* and the smallest installment, the monthly one, 470.
C28_Witness ==
    /\ cost.op = "compute_breakdown"
    /\ Product(cost.profile) = <<5689341, 1000>>
    /\ _compute_base_annual(cost.profile) = 5690
    /\ cost.result["Yearly"] = 5580
    /\ cost.result["Monthly"] = 470

(***************************************************************************)
(* Claims about the course of a request, checked under SpecLive.           *)
(***************************************************************************)
\* The calls of the handler after validation, in the order of the code.
StageOrder ==
    <<"build_query_text", "get_rag", "embed_text", "search", "generate_quote">>

IsPrefix(s, t) == Len(s) <= Len(t) /\ \A i \in DOMAIN s : s[i] = t[i]

Failed(outcome) == outcome \notin {"", NoError}

\* The calls made so far are the first stages in the code's order, there is
\* a response exactly when the handler has returned, a stage that failed
\* was the last call made and the request is answered with 500,
\* and an answer has status 200 (all five stages ran), 400 (validation
\* failed, no stage ran) or 500 (the stage called last failed).
InOrder ==
    req.pc # "idle" =>
        /\ IsPrefix(req.calls, StageOrder)
        /\ Answered <=> req.response # None
        /\ Failed(req.embed) =>
              Answered /\ req.response.status = 500 /\ Len(req.calls) = 3
        /\ Failed(req.search) =>
              Answered /\ req.response.status = 500 /\ Len(req.calls) = 4
        /\ Answered =>
              /\ req.response.status \in {200, 400, 500}
              /\ req.response.status = 200 => req.calls = StageOrder
              /\ req.response.status = 400 => req.calls = <<>>
              /\ req.response.status = 500 => Len(req.calls) >= 3

\* C29: every request is answered, once, with status 200, 400 or 500; its
\* stages run in the order validate, encode, embed, search, generate, each
\* only after the earlier ones succeeded, and no call follows a failed one.
C29_AnsweredOnceInOrder ==
    /\ []InOrder
    /\ [][Answered => (req' = IdleRequest)]_vars
    /\ (req.pc = "validate") ~> Answered

\* C29's case: a request went through all five stages and is answered 200
\* with retrieved examples.
C29_Witness ==
    /\ Answered
    /\ req.calls = StageOrder
    /\ req.response.status = 200
    /\ req.response.basedOnExamples # <<>>

(***************************************************************************)
(* Claims about concurrent calls, checked under SpecConc.                  *)
(***************************************************************************)
\* What load makes of the artifacts as they are.
LoadedNow == load(NewRagIndex, env).rag

\* C24: search and the two compute methods leave the shared instance, the
\* slot and the artifacts as they are: the instance is what load made of the
\* artifacts, however the threads interleave; every search that has ended
\* ended one of the ways the same call ends when it runs alone on that
\* instance, every compute call returned what the method returns for its
\* profile, and two calls with the same query or profile gave the same
\* result.
C24_ReadersLeaveSharedStateAlone ==
    /\ HasIndex(rag) => rag = LoadedNow
    /\ RAG # None => RAG = rag
    /\ \A t \in Threads :
          /\ th.of[t].pc = "searched" =>
                th.of[t].result \in search(LoadedNow, th.of[t].q, th.of[t].k)
          /\ (th.of[t].pc = "computed" /\ th.of[t].op = "compute_total_payable") =>
                th.of[t].result.value = compute_total_payable(th.of[t].profile)
          /\ (th.of[t].pc = "computed" /\ th.of[t].op = "compute_breakdown") =>
                th.of[t].result = compute_breakdown(th.of[t].profile)
    /\ \A t, u \in Threads :
          ( /\ th.of[t].pc = th.of[u].pc
            /\ th.of[t].pc \in {"searched", "computed"}
            /\ th.of[t].op = th.of[u].op
            /\ th.of[t].profile = th.of[u].profile
            /\ th.of[t].q = th.of[u].q /\ th.of[t].k = th.of[u].k )
              => th.of[t].result = th.of[u].result

\* C24's case: both threads have searched the shared instance with the same
\* query, each found both entries, and they hold the same results.
C24_Witness ==
    /\ \A t \in Threads :
          /\ th.of[t].pc = "searched"
          /\ th.of[t].q = <<1, 0>>
          /\ th.of[t].result.raised = NoError
          /\ Len(th.of[t].result.results) = 2
    /\ th.of[1].result = th.of[2].result

\* C26: once a call has published a loaded index, the slot stays loaded, and
\* every get_rag call that started after the publication returns a loaded
\* index.
C26_PublishedIndexStays ==
    th.published =>
        /\ RAG # None
        /\ \A t \in Threads :
              (th.of[t].pc = "returned" /\ th.of[t].op = "get_rag" /\ th.of[t].after)
                  => th.of[t].ret # None

====
